---- MODULE Spec2Model ----
(***************************************************************************)
(* Model of models/model_choice.py: the checkpoint loader load_checkpoint  *)
(* and the model factory net().  One call of net() is followed statement   *)
(* by statement; pc is the position in the function.                       *)
(***************************************************************************)
EXTENDS Integers, Sequences, FiniteSets, TLC

\* ---------------------------------------------------------------- bounds
MaxClasses == 3      \* num_classes ranges over 0..MaxClasses
MaxBands == 4        \* number_of_bands ranges over 1..MaxBands
MaxVal == 2          \* values stored in a checkpoint file range over 1..MaxVal

\* ------------------------------------------------- strings as characters
LowerAlpha == <<"a","b","c","d","e","f","g","h","i","j","k","l","m","n","o","p","q","r","s","t","u","v","w","x","y","z">>
UpperAlpha == <<"A","B","C","D","E","F","G","H","I","J","K","L","M","N","O","P","Q","R","S","T","U","V","W","X","Y","Z">>

LowerCharIdentity(c) == c

\* str.lower() on one character: upper-case letters map to their lower-case
\* letter, everything else (digits, '_') is kept
LowerChar(c) ==
    IF \E i \in 1..26 : UpperAlpha[i] = c
    THEN LowerAlpha[CHOOSE i \in 1..26 : UpperAlpha[i] = c]
    ELSE c

\* str.lower()
Lower(s) == [i \in 1..Len(s) |-> LowerChar(s[i])]

\* spellings of a name offered to the factory by the caller
UpperChar(c) ==
    IF \E i \in 1..26 : LowerAlpha[i] = c
    THEN UpperAlpha[CHOOSE i \in 1..26 : LowerAlpha[i] = c]
    ELSE c

AllUpper(s) == [i \in 1..Len(s) |-> UpperChar(s[i])]
MixedCase(s) == [i \in 1..Len(s) |-> IF i % 2 = 1 THEN UpperChar(s[i]) ELSE s[i]]
Spellings(s) == {s, AllUpper(s), MixedCase(s)}

\* two characters, or two strings, that differ at most in case
SameLetter(c, d) ==
    \/ c = d
    \/ \E i \in 1..26 : {c, d} = {LowerAlpha[i], UpperAlpha[i]}

EqIgnoreCase(s, t) ==
    /\ Len(s) = Len(t)
    /\ \A i \in 1..Len(s) : SameLetter(s[i], t[i])

\* ------------------------------------------------------ the model names
N_unetsmall == <<"u","n","e","t","s","m","a","l","l">>
N_unet == <<"u","n","e","t">>
N_ternausnet == <<"t","e","r","n","a","u","s","n","e","t">>
N_checkpointed_unet == <<"c","h","e","c","k","p","o","i","n","t","e","d","_","u","n","e","t">>
N_inception == <<"i","n","c","e","p","t","i","o","n">>
N_fcn_resnet101 == <<"f","c","n","_","r","e","s","n","e","t","1","0","1">>
N_deeplabv3_resnet101 == <<"d","e","e","p","l","a","b","v","3","_","r","e","s","n","e","t","1","0","1">>
\* names the factory does not know
N_resnet == <<"r","e","s","n","e","t">>
N_unetlarge == <<"u","n","e","t","l","a","r","g","e">>

PlainNames == {N_unetsmall, N_unet, N_checkpointed_unet, N_inception}
PretrainedNames == {N_fcn_resnet101, N_deeplabv3_resnet101}
BandConstrainedNames == {N_ternausnet} \cup PretrainedNames
SupportedNames == PlainNames \cup BandConstrainedNames
UnknownNames == {N_resnet, N_unetlarge}

\* the class each branch of the if/elif chain instantiates
ArchOf(name) ==
    CASE name = N_unetsmall -> "unet.UNetSmall"
      [] name = N_unet -> "unet.UNet"
      [] name = N_ternausnet -> "TernausNet.ternausnet"
      [] name = N_checkpointed_unet -> "checkpointed_unet.UNetSmall"
      [] name = N_inception -> "inception.Inception3"
      [] name = N_fcn_resnet101 -> "segmentation.fcn_resnet101"
      [] name = N_deeplabv3_resnet101 -> "segmentation.deeplabv3_resnet101"
      [] OTHER -> "undefined"

DispatchDefaultUnet(name) ==
    IF name \in SupportedNames THEN ArchOf(name) ELSE "unet.UNet"

\* the if/elif/else chain of net(): exact comparison of the normalized name
Dispatch(name) ==
    IF name = N_unetsmall THEN ArchOf(N_unetsmall)
    ELSE IF name = N_unet THEN ArchOf(N_unet)
    ELSE IF name = N_ternausnet THEN ArchOf(N_ternausnet)
    ELSE IF name = N_checkpointed_unet THEN ArchOf(N_checkpointed_unet)
    ELSE IF name = N_inception THEN ArchOf(N_inception)
    ELSE IF name = N_fcn_resnet101 THEN ArchOf(N_fcn_resnet101)
    ELSE IF name = N_deeplabv3_resnet101 THEN ArchOf(N_deeplabv3_resnet101)
    ELSE "undefined"

PlainArchs == {ArchOf(n) : n \in PlainNames}
PretrainedArchs == {ArchOf(n) : n \in PretrainedNames}

\* --------------------------------------------------------------- values
NONE == "<None>"                 \* Python's None where a path is expected
TrainPath == "train.pth"
InferPath == "infer.pth"

\* truth value of a path in an if statement: None and '' are false
Truthy(p) == p # NONE /\ p # ""

CoerceNever(n) == n

\* lines 34-37: a class count of one becomes two
CoerceNumClasses(n) == IF n = 1 THEN 2 ELSE n

BandAssertAtLeast(bands) == bands >= 3

\* the condition of the assert statements of lines 51, 62 and 73
BandAssert(bands) == bands = 3

\* get_key_def(key, config, default): the configured value, or the default
\* when the key is absent
Absent == "absent"
get_key_def(v, default) == IF v = Absent THEN default ELSE v

\* ------------------------------------------------------------- networks
NoLayers == [l \in {} |-> [kind |-> "", params |-> ""]]
NoNet == [arch |-> "none", num_classes |-> 0, bands |-> 0, layers |-> NoLayers]

KindOf(l) ==
    CASE l = "conv" -> "Conv2d"
      [] l = "norm" -> "BatchNorm2d"
      [] l = "backbone.conv1" -> "Conv2d"
      [] l = "backbone.bn1" -> "BatchNorm2d"
      [] l = "classifier.4" -> "Conv2d"
      [] l = "aux_classifier.4" -> "Conv2d"

\* a freshly constructed network of the repository's own architectures
NewNet(arch, nc, bands) ==
    [arch |-> arch, num_classes |-> nc, bands |-> bands,
     layers |-> [l \in {"conv", "norm"} |-> [kind |-> KindOf(l), params |-> "init"]]]

\* torchvision's segmentation constructors: pretrained=True yields the COCO
\* parameters and the auxiliary classifier, pretrained=False a fresh network
SegmentationNet(arch, pretrained, nc) ==
    [arch |-> arch, num_classes |-> nc, bands |-> 3,
     layers |-> [l \in {"backbone.conv1", "backbone.bn1", "classifier.4"}
                         \cup (IF pretrained THEN {"aux_classifier.4"} ELSE {})
                   |-> [kind |-> KindOf(l),
                        params |-> IF pretrained THEN "coco" ELSE "init"]]]

state_dict(net) == [l \in DOMAIN net.layers |-> net.layers[l].params]

\* chop_layer(state_dict, layer_names): the entries of the named layers are
\* removed
chop_layer(sd, layer_names) == [l \in (DOMAIN sd) \ layer_names |-> sd[l]]

load_state_dict_nothing(net, sd) == net

\* Module.load_state_dict(sd, strict=False): every entry of sd that the
\* network has is copied in, the others are ignored
load_state_dict(net, sd) ==
    [net EXCEPT !.layers =
        [l \in DOMAIN net.layers |->
            IF l \in DOMAIN sd
            THEN [net.layers[l] EXCEPT !.params = sd[l]]
            ELSE net.layers[l]]]

\* coordconv.swap_coordconv_layers(model, ...): every convolution layer is
\* replaced by a new coordinate-convolution layer; the parameters of the
\* replaced layer are not carried over
swap_coordconv_layers(net) ==
    [net EXCEPT !.layers =
        [l \in DOMAIN net.layers |->
            IF net.layers[l].kind = "Conv2d"
            THEN [kind |-> "CoordConv2d", params |-> "init"]
            ELSE net.layers[l]]]

CoordConvNever(net, convert) == net

\* lines 85-94
CoordConvStep(net, convert) ==
    IF get_key_def(convert, "False") = "True"
    THEN swap_coordconv_layers(net)
    ELSE net

\* ---------------------------------------------------------- checkpoints
Keys == {"model", "conv.weight"}
\* what torch.load can deserialize from a file: a mapping
Mappings == UNION {[S -> 1..MaxVal] : S \in SUBSET Keys}

ShimNever(ckpt) == ckpt

\* lines 20-25: a mapping without a 'model' key is placed under 'model'
Shim(ckpt) ==
    IF "model" \notin DOMAIN ckpt
    THEN [k \in {"model"} |-> [j \in DOMAIN ckpt |-> ckpt[j]]]
    ELSE ckpt

\* exceptions: the type, the text, the path and the model name of the message
NoExc == [type |-> "None", msg |-> "", path |-> "", name |-> <<>>]
Exc(type, msg, path, name) == [type |-> type, msg |-> msg, path |-> path, name |-> name]
OtherErrors == {"UnpicklingError", "PermissionError"}

\* the exceptions torch.load(filename) can raise
TorchLoadErrors(filename) ==
    IF filename = NONE
    THEN {Exc("AttributeError", "torch", "", <<>>)}
    ELSE {Exc("FileNotFoundError", "errno", filename, <<>>)}
         \cup (IF filename = "" THEN {}
               ELSE {Exc(t, "torch", "", <<>>) : t \in OtherErrors})

ExceptAll(exc, filename) ==
    Exc("FileNotFoundError", "No model found", filename, <<>>)

\* lines 26-27: FileNotFoundError is replaced by one naming the path, any
\* other exception leaves load_checkpoint as it is
ExceptClause(exc, filename) ==
    IF exc.type = "FileNotFoundError"
    THEN Exc("FileNotFoundError", "No model found", filename, <<>>)
    ELSE exc

ResolveInferenceFirst(train_path, infer_path, inf) ==
    IF inf THEN <<TRUE, infer_path>>
    ELSE IF Truthy(train_path) THEN <<TRUE, train_path>>
    ELSE <<FALSE, "">>

\* lines 96-103: whether a checkpoint is loaded, and from which path
Resolve(train_path, infer_path, inf) ==
    IF Truthy(train_path) THEN <<TRUE, train_path>>
    ELSE IF inf THEN <<TRUE, infer_path>>
    ELSE <<FALSE, "">>

\* ---------------------------------------------------------------- state
VARIABLES
    net_params,       \* the configuration passed to net()
    inference,        \* the inference flag passed to net()
    pc,               \* position in net() / load_checkpoint()
    model_name,       \* local of net()
    num_classes,      \* local of net()
    state_dict_path,  \* local of net()
    coco_model,       \* local of net()
    model,            \* local of net()
    filename,         \* parameter of load_checkpoint()
    raw,              \* what torch.load returned: {} or {mapping}
    exc,              \* the exception in flight inside load_checkpoint()
    checkpoint,       \* local of net(): {} is None, {c} a checkpoint
    raised,           \* the exception that left net()
    result,           \* the tuple net() returned: {} or {<<model, checkpoint, name>>}
    log               \* what the call did so far, in order

vars == <<net_params, inference, pc, model_name, num_classes, state_dict_path,
          coco_model, model, filename, raw, exc, checkpoint, raised, result, log>>

Ev(ev, arg) == [ev |-> ev, arg |-> arg]

Configs ==
    [model_name : UNION {Spellings(n) : n \in SupportedNames \cup UnknownNames},
     num_classes : 0..MaxClasses,
     number_of_bands : 1..MaxBands,
     coordconv_convert : {Absent, "True", "False"},
     train_path : {NONE, "", TrainPath},
     infer_path : {NONE, InferPath}]

Init ==
    /\ net_params \in Configs
    /\ inference \in BOOLEAN
    /\ pc = "start"
    /\ model_name = <<>>
    /\ num_classes = 0
    /\ state_dict_path = ""
    /\ coco_model = NoNet
    /\ model = NoNet
    /\ filename = ""
    /\ raw = {}
    /\ exc = NoExc
    /\ checkpoint = {}
    /\ raised = NoExc
    /\ result = {}
    /\ log = <<>>

\* lines 32-33
ReadConfig ==
    /\ pc = "start"
    /\ model_name' = Lower(net_params.model_name)
    /\ num_classes' = net_params.num_classes
    /\ pc' = "classes"
    /\ UNCHANGED <<net_params, inference, state_dict_path, coco_model, model,
                   filename, raw, exc, checkpoint, raised, result, log>>

\* lines 34-39
CoerceClasses ==
    /\ pc = "classes"
    /\ num_classes' = CoerceNumClasses(num_classes)
    /\ log' = IF num_classes = 1 THEN Append(log, Ev("warn", "num_classes")) ELSE log
    /\ state_dict_path' = ""
    /\ pc' = "dispatch"
    /\ UNCHANGED <<net_params, inference, model_name, coco_model, model,
                   filename, raw, exc, checkpoint, raised, result>>

\* lines 40-49 and 53-60: the four architectures without a band constraint
BuildPlain ==
    /\ pc = "dispatch"
    /\ Dispatch(model_name) \in PlainArchs
    /\ model' = NewNet(Dispatch(model_name), num_classes, net_params.number_of_bands)
    /\ log' = Append(log, Ev("alloc", Dispatch(model_name)))
    /\ pc' = "coordconv"
    /\ UNCHANGED <<net_params, inference, model_name, num_classes, state_dict_path,
                   coco_model, filename, raw, exc, checkpoint, raised, result>>

\* lines 50-52
BuildTernaus ==
    /\ pc = "dispatch"
    /\ Dispatch(model_name) = ArchOf(N_ternausnet)
    /\ IF BandAssert(net_params.number_of_bands)
       THEN /\ model' = NewNet(Dispatch(model_name), num_classes, 3)
            /\ log' = Append(log, Ev("alloc", Dispatch(model_name)))
            /\ pc' = "coordconv"
            /\ UNCHANGED raised
       ELSE /\ raised' = Exc("AssertionError", "Requires 3 band data", "", <<>>)
            /\ pc' = "raised"
            /\ UNCHANGED <<model, log>>
    /\ UNCHANGED <<net_params, inference, model_name, num_classes, state_dict_path,
                   coco_model, filename, raw, exc, checkpoint, result>>

\* lines 61-62 and 72-73
PretrainedAssert ==
    /\ pc = "dispatch"
    /\ Dispatch(model_name) \in PretrainedArchs
    /\ IF BandAssert(net_params.number_of_bands)
       THEN pc' = "coco" /\ UNCHANGED raised
       ELSE /\ raised' = Exc("AssertionError", "Requires 3 band data", "", <<>>)
            /\ pc' = "raised"
    /\ UNCHANGED <<net_params, inference, model_name, num_classes, state_dict_path,
                   coco_model, model, filename, raw, exc, checkpoint, result, log>>

\* lines 63 and 75-76: the network pretrained on COCO, 21 classes
AllocCoco ==
    /\ pc = "coco"
    /\ coco_model' = SegmentationNet(Dispatch(model_name), TRUE, 21)
    /\ log' = Append(log, Ev("alloc_coco", Dispatch(model_name)))
    /\ pc' = "new"
    /\ UNCHANGED <<net_params, inference, model_name, num_classes, state_dict_path,
                   model, filename, raw, exc, checkpoint, raised, result>>

\* lines 64-65 and 77-78
AllocModel ==
    /\ pc = "new"
    /\ model' = SegmentationNet(Dispatch(model_name), FALSE, num_classes)
    /\ log' = Append(log, Ev("alloc", Dispatch(model_name)))
    /\ pc' = "transfer"
    /\ UNCHANGED <<net_params, inference, model_name, num_classes, state_dict_path,
                   coco_model, filename, raw, exc, checkpoint, raised, result>>

\* lines 66-71 and 79-81
Transfer ==
    /\ pc = "transfer"
    /\ model' = load_state_dict(model, chop_layer(state_dict(coco_model), {"classifier.4"}))
    /\ coco_model' = NoNet
    /\ log' = Append(log, Ev("transfer", Dispatch(model_name)))
    /\ pc' = "coordconv"
    /\ UNCHANGED <<net_params, inference, model_name, num_classes, state_dict_path,
                   filename, raw, exc, checkpoint, raised, result>>

\* lines 82-83
RaiseUnknown ==
    /\ pc = "dispatch"
    /\ Dispatch(model_name) = "undefined"
    /\ raised' = Exc("ValueError", "not defined", "", model_name)
    /\ pc' = "raised"
    /\ UNCHANGED <<net_params, inference, model_name, num_classes, state_dict_path,
                   coco_model, model, filename, raw, exc, checkpoint, result, log>>

\* lines 85-94
CoordConv ==
    /\ pc = "coordconv"
    /\ model' = CoordConvStep(model, net_params.coordconv_convert)
    /\ log' = IF get_key_def(net_params.coordconv_convert, "False") = "True"
              THEN Append(log, Ev("swap", model.arch))
              ELSE log
    /\ pc' = "resolve"
    /\ UNCHANGED <<net_params, inference, model_name, num_classes, state_dict_path,
                   coco_model, filename, raw, exc, checkpoint, raised, result>>

\* lines 96-103
ResolveCheckpoint ==
    /\ pc = "resolve"
    /\ LET r == Resolve(net_params.train_path, net_params.infer_path, inference)
       IN  IF r[1]
           THEN /\ state_dict_path' = r[2]
                /\ filename' = r[2]
                /\ pc' = "torch_load"
                /\ UNCHANGED checkpoint
           ELSE /\ checkpoint' = {}
                /\ pc' = "return"
                /\ UNCHANGED <<state_dict_path, filename>>
    /\ UNCHANGED <<net_params, inference, model_name, num_classes, coco_model,
                   model, raw, exc, raised, result, log>>

\* lines 14-17: the single call of torch.load; the file system decides
TorchLoad ==
    /\ pc = "torch_load"
    /\ log' = Append(log, Ev("read", filename))
    /\ \/ /\ Truthy(filename)
          /\ \E m \in Mappings : raw' = {m}
          /\ pc' = "shim"
          /\ UNCHANGED exc
       \/ /\ \E e \in TorchLoadErrors(filename) : exc' = e
          /\ pc' = "except"
          /\ UNCHANGED raw
    /\ UNCHANGED <<net_params, inference, model_name, num_classes, state_dict_path,
                   coco_model, model, filename, checkpoint, raised, result>>

\* lines 20-25, and the assignment of the returned value in line 98 or 101
ShimAndReturn ==
    /\ pc = "shim"
    /\ checkpoint' = {Shim(m) : m \in raw}
    /\ pc' = "return"
    /\ UNCHANGED <<net_params, inference, model_name, num_classes, state_dict_path,
                   coco_model, model, filename, raw, exc, raised, result, log>>

\* lines 26-27; net() has no handler, the exception leaves net() as well
Except ==
    /\ pc = "except"
    /\ raised' = ExceptClause(exc, filename)
    /\ pc' = "raised"
    /\ UNCHANGED <<net_params, inference, model_name, num_classes, state_dict_path,
                   coco_model, model, filename, raw, exc, checkpoint, result, log>>

\* line 105
Return ==
    /\ pc = "return"
    /\ result' = {<<model, checkpoint, model_name>>}
    /\ pc' = "returned"
    /\ UNCHANGED <<net_params, inference, model_name, num_classes, state_dict_path,
                   coco_model, model, filename, raw, exc, checkpoint, raised, log>>

Next ==
    \/ ReadConfig
    \/ CoerceClasses
    \/ BuildPlain
    \/ BuildTernaus
    \/ PretrainedAssert
    \/ AllocCoco
    \/ AllocModel
    \/ Transfer
    \/ RaiseUnknown
    \/ CoordConv
    \/ ResolveCheckpoint
    \/ TorchLoad
    \/ ShimAndReturn
    \/ Except
    \/ Return

Spec == Init /\ [][Next]_vars

TypeOK ==
    /\ pc \in {"start", "classes", "dispatch", "coco", "new", "transfer", "coordconv",
               "resolve", "torch_load", "shim", "except", "return", "returned", "raised"}
    /\ Cardinality(raw) <= 1
    /\ Cardinality(checkpoint) <= 1
    /\ Cardinality(result) <= 1

\* ------------------------------------------------------------ properties
Pos(ev) == {i \in DOMAIN log : log[i].ev = ev}
IsRead(e) == e.ev = "read"
ReadLog == SelectSeq(log, IsRead)
Convert == net_params.coordconv_convert = "True"
Matches(names) == \E n \in names : EqIgnoreCase(net_params.model_name, n)
NothingBuilt ==
    /\ model = NoNet
    /\ coco_model = NoNet
    /\ Pos("alloc") \cup Pos("alloc_coco") \cup Pos("swap") \cup Pos("read") = {}
    /\ checkpoint = {}
    /\ result = {}
BeforeConstruction == pc \in {"start", "classes", "dispatch", "raised"}

\* C1: when net() returns, the checkpoint it returns was loaded from the
\* training path if that path is set, whatever the inference flag, and the
\* inference path was not read; otherwise from the inference path if the
\* inference flag is set; otherwise it is None and no file was read.
C1_CheckpointResolution ==
    pc = "returned" =>
        \A r \in result :
            IF Truthy(net_params.train_path)
            THEN /\ ReadLog = <<Ev("read", net_params.train_path)>>
                 /\ r[2] # {}
                 /\ \A c \in r[2], m \in raw : c = m \/ c = [k \in {"model"} |-> m]
            ELSE IF inference
            THEN /\ ReadLog = <<Ev("read", net_params.infer_path)>>
                 /\ r[2] # {}
                 /\ \A c \in r[2], m \in raw : c = m \/ c = [k \in {"model"} |-> m]
            ELSE r[2] = {} /\ ReadLog = <<>>

C1_Witness ==
    /\ pc = "returned"
    /\ net_params.train_path = TrainPath
    /\ net_params.infer_path = InferPath
    /\ inference
    /\ checkpoint # {}

\* C2: with coordconv_convert true, every read of a checkpoint file comes
\* after the layer swap, the swap step yields exactly the swapped model, no
\* later step of the factory touches the model, and the tuple returned holds
\* that model and the checkpoint side by side.
C2_ConvertBeforeCheckpoint ==
    /\ [](Convert => \A i \in Pos("read") : \E j \in Pos("swap") : j < i)
    /\ [][(Convert /\ pc = "coordconv") => model' = swap_coordconv_layers(model)]_vars
    /\ [][(pc \in {"resolve", "torch_load", "shim", "except", "return"}) => model' = model]_vars
    /\ []((Convert /\ pc = "returned") =>
             /\ Pos("swap") # {}
             /\ \A r \in result : r[1] = model /\ r[2] = checkpoint)

C2_Witness ==
    /\ pc = "returned"
    /\ Convert
    /\ Pos("swap") # {}
    /\ Pos("read") # {}
    /\ checkpoint # {}

\* C3: a band-constrained architecture with a band count other than 3 fails
\* with the band-count assertion before anything is allocated, converted or
\* read; the other architectures never fail with that assertion.
C3_BandConstraint ==
    /\ (Matches(BandConstrainedNames) /\ net_params.number_of_bands # 3) =>
          /\ BeforeConstruction
          /\ NothingBuilt
          /\ pc = "raised" =>
                /\ raised.type = "AssertionError"
                /\ raised.msg = "Requires 3 band data"
    /\ Matches(PlainNames) => raised.type # "AssertionError"

C3_Witness ==
    /\ pc = "raised"
    /\ Matches(PretrainedNames)
    /\ net_params.number_of_bands > 3
    /\ raised.type = "AssertionError"

\* C4: a model name whose lowercase form is not supported fails with a
\* ValueError naming it; nothing is constructed, converted, read or returned.
C4_UnknownModelName ==
    ~Matches(SupportedNames) =>
        /\ BeforeConstruction
        /\ NothingBuilt
        /\ pc = "raised" =>
              /\ raised.type = "ValueError"
              /\ EqIgnoreCase(raised.name, net_params.model_name)

C4_Witness ==
    /\ pc = "raised"
    /\ ~Matches(SupportedNames)
    /\ raised.type = "ValueError"
    /\ Convert
    /\ inference
    /\ Truthy(net_params.train_path)

\* C5: with num_classes 1 a warning is emitted, the call goes on, and every
\* network built for the caller has exactly 2 output classes.
C5_OneClassBecomesTwo ==
    net_params.num_classes = 1 =>
        /\ pc \notin {"start", "classes"} => Cardinality(Pos("warn")) = 1
        /\ (pc = "dispatch") => raised = NoExc
        /\ model # NoNet => model.num_classes = 2
        /\ \A r \in result : r[1].num_classes = 2

C5_Witness ==
    /\ pc = "returned"
    /\ net_params.num_classes = 1
    /\ Pos("warn") # {}
    /\ model.num_classes = 2

\* C6: whenever a model is constructed it has at least 2 output classes.
C6_MinimumTwoClasses ==
    model # NoNet => model.num_classes >= 2

\* C7: load_checkpoint returns a mapping without a 'model' key as the value
\* of the single key 'model', and a mapping with a 'model' key as it is; the
\* result always has a 'model' key and the shim leaves it unchanged.
C7_CompatibilityShim ==
    pc \in {"return", "returned"} /\ raw # {} =>
        /\ checkpoint # {}
        /\ \A m \in raw, c \in checkpoint :
              /\ "model" \notin DOMAIN m => (DOMAIN c = {"model"} /\ c["model"] = m)
              /\ "model" \in DOMAIN m => c = m
              /\ "model" \in DOMAIN c
              /\ Shim(c) = c

C7_Witness ==
    /\ pc = "return"
    /\ \E m \in raw : DOMAIN m = {"conv.weight"}
    /\ \E c \in checkpoint : DOMAIN c = {"model"}

\* C8: the file is read at most once; a missing file makes load_checkpoint,
\* and net(), fail with a FileNotFoundError naming the path; any other
\* exception of torch.load leaves both unchanged; nothing is returned.
C8_LoadFailures ==
    /\ Cardinality(Pos("read")) <= 1
    /\ pc = "raised" => result = {}
    /\ (pc = "raised" /\ exc.type = "FileNotFoundError") =>
          /\ raised.type = "FileNotFoundError"
          /\ raised.msg = "No model found"
          /\ raised.path = filename
          /\ ReadLog = <<Ev("read", raised.path)>>
          /\ checkpoint = {}
    /\ (pc = "raised" /\ exc.type \notin {"None", "FileNotFoundError"}) =>
          /\ raised = exc
          /\ checkpoint = {}

C8_Witness ==
    /\ pc = "raised"
    /\ exc.type = "UnpicklingError"
    /\ raised.type = "UnpicklingError"
    /\ model # NoNet

AllocsOf(n) ==
    /\ \A i \in Pos("alloc") \cup Pos("alloc_coco") : log[i].arg = ArchOf(n)
    /\ \A r \in result : r[3] = n /\ r[1].arch = ArchOf(n)

\* C9 (as stated): a supported name in any mix of case constructs exactly one
\* network, of the architecture of the lowercase name, and that name is the
\* third element of the returned tuple.
C9_ExactlyOneNetwork ==
    \A n \in SupportedNames :
        EqIgnoreCase(net_params.model_name, n) =>
            /\ raised.type # "ValueError"
            /\ pc = "returned" =>
                  /\ AllocsOf(n)
                  /\ Cardinality(Pos("alloc") \cup Pos("alloc_coco")) = 1

\* C9 (amended): a supported name in any mix of case selects the
\* architecture of the lowercase name: every network constructed is of that
\* architecture, exactly one of them is returned (the two pretrained variants
\* also construct, and discard, a pretrained COCO network), and the lowercase
\* name is the third element of the returned tuple.
C9_OneArchitecture ==
    \A n \in SupportedNames :
        EqIgnoreCase(net_params.model_name, n) =>
            /\ raised.type # "ValueError"
            /\ pc = "returned" =>
                  /\ AllocsOf(n)
                  /\ result # {}
                  /\ Cardinality(Pos("alloc")) = 1
                  /\ Cardinality(Pos("alloc_coco")) = (IF n \in PretrainedNames THEN 1 ELSE 0)
                  /\ coco_model = NoNet

C9_Witness ==
    /\ pc = "returned"
    /\ net_params.model_name = MixedCase(N_deeplabv3_resnet101)
    /\ model.arch = "segmentation.deeplabv3_resnet101"
    /\ Cardinality(Pos("alloc_coco")) = 1

\* C10: for the pretrained variants the transfer happens once, before the
\* swap; with conversion the replaced convolution layers of the returned
\* model do not carry pretrained parameters; without it the returned model
\* keeps every transferred parameter, and 'classifier.4' is not transferred.
C10_TransferBeforeSwap ==
    Matches(PretrainedNames) =>
        /\ Cardinality(Pos("transfer")) <= 1
        /\ \A i \in Pos("swap") : \E j \in Pos("transfer") : j < i
        /\ \A r \in result : \A l \in DOMAIN r[1].layers :
              IF Convert
              THEN KindOf(l) = "Conv2d" =>
                      /\ r[1].layers[l].kind = "CoordConv2d"
                      /\ r[1].layers[l].params # "coco"
              ELSE /\ l # "classifier.4" => r[1].layers[l].params = "coco"
                   /\ l = "classifier.4" => r[1].layers[l].params = "init"
                   /\ r[1].layers[l].kind = KindOf(l)

C10_Witness ==
    /\ pc = "returned"
    /\ Matches(PretrainedNames)
    /\ Convert
    /\ Pos("transfer") # {}
    /\ \E l \in DOMAIN model.layers : model.layers[l].kind = "CoordConv2d"

====
